---- MODULE Spec2Model ----
(***************************************************************************)
(* NIST SP 800-22 test battery (rust-nist-suite): the Frequency Monobit    *)
(* test, the Longest Run of Ones in a Block test and the Overlapping       *)
(* Template Matching test, each as a state machine over one call of its    *)
(* perform_test.                                                           *)
(*                                                                         *)
(* Floating point (chi-square, erfc, the incomplete gamma function) is not *)
(* modelled: where the code computes a p-value the model records that the  *)
(* call returned Ok and keeps the integer data the p-value is built from.  *)
(***************************************************************************)
EXTENDS Integers, Sequences, FiniteSets, TLC

VARIABLES
    bit_string,         \* the argument of perform_test (see CharAt)
    pc,                 \* position inside the running perform_test
    result,             \* "none" | "Ok" | "Err" | "Panic"
    error,              \* which bail!/panic ended the call ("" while none)
    length,             \* let length = ... (-1 before it is bound)
    warned,             \* a log::warn! advisory was emitted
    \* frequency_monobit::perform_test
    count_zero, count_one, partial_sum,
    \* longest_run::perform_test
    config, block_num, counts, vi_counts, pairs,
    \* overlapping_template::perform_test
    template_len, number_of_blocks, block_size, number_of_templates, mean_numerator,
    num, template, block, substring, index, counter, template_counters, p_values

commonVars == <<bit_string, pc, result, error, length, warned>>
fmVars == <<count_zero, count_one, partial_sum>>
lrVars == <<config, block_num, counts, vi_counts, pairs>>
otVars == <<template_len, number_of_blocks, block_size, number_of_templates,
            mean_numerator, num, template, block, substring, index, counter,
            template_counters, p_values>>
vars == <<commonVars, fmVars, lrVars, otVars>>

(***************************************************************************)
(* Bounds of the explored inputs.                                          *)
(***************************************************************************)
MaxBits == 5        \* explicit bit strings have up to MaxBits symbols
MaxPat == 1         \* tiled bit strings repeat patterns of up to MaxPat symbols
MaxSplit == 13      \* where a tiled bit string switches to its second pattern
MaxExtra == 8       \* lengths explored above a length threshold
MaxTemplateLen == 3 \* small template lengths explored
MaxBlocks == 2      \* small block counts explored
MaxCategory == 17   \* largest run length in a drawn run_counts map
MaxCount == 2       \* largest count in a drawn run_counts map
MaxKeys == 2        \* number of categories in a drawn run_counts map

(***************************************************************************)
(* Bit strings.  A &str argument is kept by its generator: `first` tiled   *)
(* over the first `split` symbols, `second` tiled over the rest, `len`     *)
(* symbols in all.  An explicit string s is [first |-> s, split |-> Len(s),*)
(* second |-> <<>>, len |-> Len(s)].  Indices are 0-based as in Rust.      *)
(***************************************************************************)
Symbols == {"0", "1", "2"}
Bits == {"0", "1"}

SeqsUpTo(S, n) == UNION {[1..k -> S] : k \in 0..n}

Explicit(s) == [first |-> s, split |-> Len(s), second |-> <<>>, len |-> Len(s)]

Tiled(p1, s, p2, L) == [first |-> p1, split |-> s, second |-> p2, len |-> L]

\* bit_string.as_bytes()[i]
CharAt(bs, i) ==
    IF i < bs.split
    THEN bs.first[(i % Len(bs.first)) + 1]
    ELSE bs.second[((i - bs.split) % Len(bs.second)) + 1]

\* &bit_string[start..end]
Slice(bs, start, end) == [i \in 1..(end - start) |-> CharAt(bs, start + i - 1)]

\* 2_usize.pow(n)
RECURSIVE Pow2(_)
Pow2(n) == IF n = 0 THEN 1 ELSE 2 * Pow2(n - 1)

\* A usize result: wraps * 2^64 + value.  Results that fit have wraps = 0; a
\* subtraction that wrapped below zero has wraps = 1 and a negative value.
Usize(v) == [wraps |-> 0, value |-> v]
UsizeWrapped(v) == [wraps |-> 1, value |-> v]

(***************************************************************************)
(* utils::evaluate_bit_string(test, bit_string, recommended_size)          *)
(***************************************************************************)
bit_string_is_invalid(bs) ==
    bs.len = 0 \/ \E i \in 0..(bs.len - 1) : CharAt(bs, i) \notin Bits

evaluate_bit_string(bs, recommended_size) ==
    IF bit_string_is_invalid(bs)
    THEN [ok |-> FALSE, length |-> -1, warn |-> FALSE]
    ELSE [ok |-> TRUE, length |-> bs.len, warn |-> bs.len < recommended_size]

(***************************************************************************)
(* Values the variables of a test hold while another test runs.            *)
(***************************************************************************)
FMIdle == count_zero = -1 /\ count_one = -1 /\ partial_sum = -1

LRIdle ==
    /\ config = [ok |-> FALSE]
    /\ block_num = 0
    /\ counts = <<>>      \* BTreeMap::new()
    /\ vi_counts = <<>>
    /\ pairs = <<>>

OTIdle ==
    /\ template_len = 0
    /\ number_of_blocks = 0
    /\ block_size = -1
    /\ number_of_templates = -1
    /\ mean_numerator = Usize(0)
    /\ num = 0
    /\ template = <<>>
    /\ block = 0
    /\ substring = <<>>
    /\ index = 0
    /\ counter = 0
    /\ template_counters = <<>>
    /\ p_values = <<>>

CallStart(label) ==
    /\ pc = label
    /\ result = "none"
    /\ error = ""
    /\ length = -1
    /\ warned = FALSE

\* `return Err(...)` / a panic: the call is over.
Fail(kind, why) ==
    /\ pc' = "done"
    /\ result' = kind
    /\ error' = why

(***************************************************************************)
(* frequency_monobit::perform_test                                         *)
(***************************************************************************)
FM_RECOMMENDED == 100

fm_invalid_all(bs) ==
    bs.len = 0 \/ \A i \in 0..(bs.len - 1) : CharAt(bs, i) # "0" /\ CharAt(bs, i) # "1"

\* bit_string.is_empty() || bit_string.chars().any(|c| c != '0' && c != '1')
fm_invalid(bs) ==
    bs.len = 0 \/ \E i \in 0..(bs.len - 1) : CharAt(bs, i) # "0" /\ CharAt(bs, i) # "1"

\* bit_string.chars().filter(|&c| c == '0').count()
fm_count_zero(bs) == Cardinality({i \in 0..(bs.len - 1) : CharAt(bs, i) = "0"})

FMValidate ==
    /\ pc = "fm_start"
    /\ IF fm_invalid(bit_string)
       THEN /\ Fail("Err", "empty or invalid character")
            /\ UNCHANGED <<length, warned>>
       ELSE /\ pc' = "fm_count"
            /\ length' = bit_string.len
            /\ warned' = (bit_string.len < FM_RECOMMENDED)
            /\ UNCHANGED <<result, error>>
    /\ UNCHANGED <<bit_string, fmVars, lrVars, otVars>>

FMCount ==
    /\ pc = "fm_count"
    /\ count_zero' = fm_count_zero(bit_string)
    /\ count_one' = length - count_zero'
    /\ partial_sum' = IF count_zero' >= count_one'
                      THEN count_zero' - count_one'
                      ELSE count_one' - count_zero'
    /\ pc' = "fm_pvalue"
    /\ UNCHANGED <<bit_string, result, error, length, warned, lrVars, otVars>>

\* observed = partial_sum / sqrt(length); p_value = erfc(observed / sqrt(2)); Ok(p_value)
FMResult ==
    /\ pc = "fm_pvalue"
    /\ pc' = "done"
    /\ result' = "Ok"
    /\ UNCHANGED <<bit_string, error, length, warned, fmVars, lrVars, otVars>>

FMInputs ==
    {Explicit(s) : s \in SeqsUpTo(Symbols, MaxBits)}
    \cup {Tiled(p, L, <<>>, L) : p \in SeqsUpTo(Symbols, MaxPat) \ {<<>>},
                                 L \in (FM_RECOMMENDED - 1)..(FM_RECOMMENDED + MaxExtra)}

InitFM ==
    /\ bit_string \in FMInputs
    /\ CallStart("fm_start")
    /\ FMIdle /\ LRIdle /\ OTIdle

NextFM == FMValidate \/ FMCount \/ FMResult

SpecFM == InitFM /\ [][NextFM]_vars

(***************************************************************************)
(* Ordered maps (BTreeMap<i32, i32>): functions with a finite integer      *)
(* domain, iterated in ascending key order.                                *)
(***************************************************************************)
EmptyMap == <<>>

MinOf(S) == CHOOSE x \in S : \A y \in S : x <= y

\* *m.entry(k).or_insert(0) += v
entry_add(m, k, v) ==
    IF k \in DOMAIN m THEN [m EXCEPT ![k] = @ + v] ELSE m @@ (k :> 0 + v)

entry_insert_zero(m, k) == IF k \in DOMAIN m THEN [m EXCEPT ![k] = 0] ELSE m @@ (k :> 0)

\* m.entry(k).or_insert(0);
entry_or_insert_zero(m, k) == IF k \in DOMAIN m THEN m ELSE m @@ (k :> 0)

\* the values of m in ascending key order (m.iter())
RECURSIVE ValuesAscending(_, _)
ValuesAscending(m, keys) ==
    IF keys = {} THEN <<>>
    ELSE LET k == MinOf(keys) IN <<m[k]>> \o ValuesAscending(m, keys \ {k})

(***************************************************************************)
(* crate::constants of the Longest Run test (constants.rs): the length     *)
(* buckets, block sizes M, block counts N, merge thresholds and pi tables  *)
(* of NIST SP 800-22 sections 2.4 and 3.4.  The pi values are kept as      *)
(* integers, scaled by 10^4.                                               *)
(***************************************************************************)
MIN_LENGTH == 128
MID_LENGTH == 6272
MAX_LENGTH == 750000
MIN_SIZE_M == 8
MIN_SIZE_N == 16
MID_SIZE_M == 128
MID_SIZE_N == 49
MAX_SIZE_M == 10000
MAX_SIZE_N == 75
MIN_THRESHOLDS == <<1, 4>>
MID_THRESHOLDS == <<4, 9>>
MAX_THRESHOLDS == <<10, 16>>
MIN_PI_VALUES == <<2148, 3672, 2305, 1875>>
MID_PI_VALUES == <<1174, 2430, 2493, 1752, 1027, 1124>>
MAX_PI_VALUES == <<882, 2092, 2483, 1933, 1208, 675, 727>>

\* customtypes::LongestRunConfig::create(block_size, number_of_blocks, thresholds, pi_values)
LongestRunConfig(m, n, thresholds, pi_values) ==
    [ok |-> TRUE, block_size |-> m, number_of_blocks |-> n,
     thresholds |-> thresholds, pi_values |-> pi_values]

(***************************************************************************)
(* longest_run::get_longest_run_config                                     *)
(***************************************************************************)
get_longest_run_config_floor_off_by_one(len) ==
    IF len <= MIN_LENGTH
    THEN [ok |-> FALSE]
    ELSE IF len < MID_LENGTH
    THEN LongestRunConfig(MIN_SIZE_M, MIN_SIZE_N, MIN_THRESHOLDS, MIN_PI_VALUES)
    ELSE IF len < MAX_LENGTH
    THEN LongestRunConfig(MID_SIZE_M, MID_SIZE_N, MID_THRESHOLDS, MID_PI_VALUES)
    ELSE LongestRunConfig(MAX_SIZE_M, MAX_SIZE_N, MAX_THRESHOLDS, MAX_PI_VALUES)

get_longest_run_config(len) ==
    IF len < MIN_LENGTH
    THEN [ok |-> FALSE]
    ELSE IF len \in MIN_LENGTH..(MID_LENGTH - 1)
    THEN LongestRunConfig(MIN_SIZE_M, MIN_SIZE_N, MIN_THRESHOLDS, MIN_PI_VALUES)
    ELSE IF len \in MID_LENGTH..(MAX_LENGTH - 1)
    THEN LongestRunConfig(MID_SIZE_M, MID_SIZE_N, MID_THRESHOLDS, MID_PI_VALUES)
    ELSE LongestRunConfig(MAX_SIZE_M, MAX_SIZE_N, MAX_THRESHOLDS, MAX_PI_VALUES)

(***************************************************************************)
(* longest_run::count_max_consecutive_ones: the body of `for bit in        *)
(* block.chars()` is RunStep; the loop runs it over the block from left to *)
(* right.  A long range is halved only to keep the evaluation shallow: the *)
(* loop state after the left half is the loop state the right half starts  *)
(* from (current_count is never negative, so the test on it only orders    *)
(* the two evaluations).                                                   *)
(***************************************************************************)
RunStep(st, bit) ==
    IF bit = "1"
    THEN [current_count |-> st.current_count + 1,
          max_count |-> IF st.max_count >= st.current_count + 1
                        THEN st.max_count ELSE st.current_count + 1]
    ELSE [current_count |-> 0, max_count |-> st.max_count]

\* the loop over blk[lo..hi], entered in loop state st
RECURSIVE RunLoop(_, _, _, _)
RunLoop(blk, lo, hi, st) ==
    IF lo > hi THEN st
    ELSE IF hi - lo < 16 THEN RunLoop(blk, lo + 1, hi, RunStep(st, blk[lo]))
    ELSE LET mid == (lo + hi) \div 2
             left == RunLoop(blk, lo, mid, st)
         IN  IF left.current_count >= 0 THEN RunLoop(blk, mid + 1, hi, left) ELSE left

count_max_consecutive_ones(blk) ==
    RunLoop(blk, 1, Len(blk), [current_count |-> 0, max_count |-> 0]).max_count

(***************************************************************************)
(* longest_run::calculate_vi_values                                        *)
(***************************************************************************)
\* the key of vi_counts that a run_counts key is added to
vi_key(key, thresholds) ==
    IF key <= thresholds[1] THEN thresholds[1]
    ELSE IF key >= thresholds[2] THEN thresholds[2]
    ELSE key

\* for (&key, &value) in &run_counts { ... }
RECURSIVE merge_loop(_, _, _, _)
merge_loop(run_counts, keys, thresholds, vi) ==
    IF keys = {} THEN vi
    ELSE LET key == MinOf(keys)
         IN  merge_loop(run_counts, keys \ {key}, thresholds,
                        entry_add(vi, vi_key(key, thresholds), run_counts[key]))

fill_loop_skipped(vi, threshold, max) == vi

\* for threshold in thresholds.0..=thresholds.1 { vi_counts.entry(threshold).or_insert(0); }
RECURSIVE fill_loop(_, _, _)
fill_loop(vi, threshold, max) ==
    IF threshold > max THEN vi
    ELSE fill_loop(entry_or_insert_zero(vi, threshold), threshold + 1, max)

calculate_vi_values(run_counts, thresholds) ==
    fill_loop(merge_loop(run_counts, DOMAIN run_counts, thresholds, EmptyMap),
              thresholds[1], thresholds[2])

\* vi_counts.iter().zip(config.pi_values.iter())
zip_vi_pi(vi, pi_values) ==
    LET vs == ValuesAscending(vi, DOMAIN vi)
        n == IF Len(vs) <= Len(pi_values) THEN Len(vs) ELSE Len(pi_values)
    IN  [i \in 1..n |-> <<vs[i], pi_values[i]>>]

(***************************************************************************)
(* longest_run::perform_test                                               *)
(***************************************************************************)
LRValidate ==
    /\ pc = "lr_start"
    /\ \E r \in {evaluate_bit_string(bit_string, MIN_LENGTH)} :
           IF r.ok
           THEN /\ pc' = "lr_config"
                /\ length' = r.length
                /\ warned' = r.warn
                /\ UNCHANGED <<result, error>>
           ELSE /\ Fail("Err", "invalid bit string")
                /\ UNCHANGED <<length, warned>>
    /\ UNCHANGED <<bit_string, fmVars, lrVars, otVars>>

LRConfig ==
    /\ pc = "lr_config"
    /\ LET c == get_longest_run_config(length)
       IN  IF c.ok
           THEN /\ config' = c
                /\ pc' = "lr_blocks"
                /\ UNCHANGED <<result, error>>
           ELSE /\ Fail("Err", "length below minimum")
                /\ UNCHANGED config
    /\ UNCHANGED <<bit_string, length, warned, block_num, counts, vi_counts, pairs,
                   fmVars, otVars>>

\* one iteration of `for block_num in 0..config.number_of_blocks`
LRBlock ==
    /\ pc = "lr_blocks"
    /\ block_num < config.number_of_blocks
    /\ LET start_index == block_num * config.block_size
           end_index == (block_num + 1) * config.block_size
       IN  IF end_index > bit_string.len
           THEN /\ Fail("Panic", "byte index out of bounds")
                /\ UNCHANGED <<block_num, counts>>
           ELSE /\ \E blk \in {Slice(bit_string, start_index, end_index)} :
                   \E max_consecutive_ones \in {count_max_consecutive_ones(blk)} :
                       counts' = entry_add(counts, max_consecutive_ones, 1)
                /\ block_num' = block_num + 1
                /\ UNCHANGED <<pc, result, error>>
    /\ UNCHANGED <<bit_string, length, warned, config, vi_counts, pairs, fmVars, otVars>>

\* the loop is over: let vi_counts = calculate_vi_values(counts, config.thresholds)
LRMerge ==
    /\ pc = "lr_blocks"
    /\ block_num >= config.number_of_blocks
    /\ vi_counts' = calculate_vi_values(counts, config.thresholds)
    /\ pc' = "lr_chi_square"
    /\ UNCHANGED <<bit_string, result, error, length, warned, config, block_num, counts,
                   pairs, fmVars, otVars>>

\* the chi-square loop over the zipped (v_i, pi_i), gamma_ur, Ok(p_value)
LRResult ==
    /\ pc = "lr_chi_square"
    /\ pairs' = zip_vi_pi(vi_counts, config.pi_values)
    /\ pc' = "done"
    /\ result' = "Ok"
    /\ UNCHANGED <<bit_string, error, length, warned, config, block_num, counts,
                   vi_counts, fmVars, otVars>>

Patterns == SeqsUpTo(Bits, MaxPat) \ {<<>>}
BadPatterns == {<<"2">>, <<"1", "2">>}

\* every composition near the floor; one composition per length below it and at the
\* thresholds of the larger buckets
LRInputs ==
    {Tiled(p1, s, p2, L) : p1 \in Patterns \cup BadPatterns, s \in 0..MaxSplit,
                           p2 \in Patterns \cup BadPatterns,
                           L \in (MIN_LENGTH - 1)..(MIN_LENGTH + MaxExtra)}
    \cup {Tiled(<<"1">>, s, <<"1", "0">>, L) : s \in {0, MaxSplit}, L \in 1..(MIN_LENGTH - 1)}
    \cup {Explicit(<<>>)}
    \cup {Tiled(<<"1">>, s, <<"1", "0">>, L) :
              s \in {0, MaxSplit},
              L \in {MID_LENGTH - 1, MID_LENGTH, MID_LENGTH + MID_SIZE_M}}
    \cup {Tiled(<<"1">>, MaxSplit, <<"1", "0">>, L) : L \in {MAX_LENGTH - 1, MAX_LENGTH}}

InitLR ==
    /\ bit_string \in LRInputs
    /\ CallStart("lr_start")
    /\ FMIdle /\ LRIdle /\ OTIdle

NextLR == LRValidate \/ LRConfig \/ LRBlock \/ LRMerge \/ LRResult

SpecLR == InitLR /\ [][NextLR]_vars

(***************************************************************************)
(* calculate_vi_values on its own: applied to drawn run_counts and to the  *)
(* thresholds of each configuration.                                       *)
(***************************************************************************)
RECURSIVE KeySetsUpTo(_, _)
KeySetsUpTo(S, n) ==
    IF n = 0 THEN {{}}
    ELSE LET smaller == KeySetsUpTo(S, n - 1)
         IN  smaller \cup {K \cup {x} : K \in smaller, x \in S}

RunCountMaps ==
    UNION {[K -> 1..MaxCount] : K \in KeySetsUpTo(0..MaxCategory, MaxKeys)}

ViApply ==
    /\ pc = "vi_call"
    /\ vi_counts' = calculate_vi_values(counts, config.thresholds)
    /\ pc' = "vi_return"
    /\ UNCHANGED <<bit_string, result, error, length, warned, config, block_num, counts,
                   pairs, fmVars, otVars>>

InitVi ==
    /\ bit_string = Explicit(<<>>)
    /\ CallStart("vi_call")
    /\ config \in {get_longest_run_config(L) : L \in {MIN_LENGTH, MID_LENGTH, MAX_LENGTH}}
    /\ counts \in RunCountMaps
    /\ block_num = 0
    /\ vi_counts = EmptyMap
    /\ pairs = <<>>
    /\ FMIdle /\ OTIdle

NextVi == ViApply

SpecVi == InitVi /\ [][NextVi]_vars

(***************************************************************************)
(* crate::constants of the Overlapping Template test (constants.rs).       *)
(***************************************************************************)
TEMPLATE_LEN_0 == 2                                 \* TEMPLATE_LEN.0
TEMPLATE_LEN_1 == 10                                \* TEMPLATE_LEN.1
RECOMMENDED_SIZE == 100
RECOMMENDED_SIZE_OVERLAPPING_TEMPLATE == 1000000
BLOCK_SIZE_DIVISOR == 100                           \* bit_string_length / 100

(***************************************************************************)
(* overlapping_template::evaluate_test_params.  The outcome is Ok(block    *)
(* size), Err, or the panic of an integer division by zero.                *)
(***************************************************************************)
ParamsOk(m) == [kind |-> "Ok", block_size |-> m, why |-> ""]
ParamsErr(why) == [kind |-> "Err", block_size |-> -1, why |-> why]
ParamsPanic(why) == [kind |-> "Panic", block_size |-> -1, why |-> why]

evaluate_test_params_strict_block_check(bit_string_length, m, n) ==
    IF m \notin TEMPLATE_LEN_0..((TEMPLATE_LEN_1 + 1) - 1)
    THEN ParamsErr("template length out of range")
    ELSE IF n > RECOMMENDED_SIZE
    THEN ParamsErr("number of blocks greater than recommended size")
    ELSE IF n = 0
    THEN ParamsPanic("attempt to divide by zero")
    ELSE IF bit_string_length \div n < bit_string_length \div BLOCK_SIZE_DIVISOR
         THEN ParamsErr("block size too small")
         ELSE ParamsOk(bit_string_length \div n)

evaluate_test_params(bit_string_length, m, n) ==
    IF m \notin TEMPLATE_LEN_0..((TEMPLATE_LEN_1 + 1) - 1)
    THEN ParamsErr("template length out of range")
    ELSE IF n > RECOMMENDED_SIZE
    THEN ParamsErr("number of blocks greater than recommended size")
    ELSE IF n = 0
    THEN ParamsPanic("attempt to divide by zero")
    ELSE LET m_block == bit_string_length \div n
             recommended_size == bit_string_length \div BLOCK_SIZE_DIVISOR
         IN  IF m_block <= recommended_size
             THEN ParamsErr("block size too small")
             ELSE ParamsOk(m_block)

(***************************************************************************)
(* format!("{:0width$b}", num, width = template_len): the binary digits of *)
(* num, padded on the left with '0' to at least `width` symbols.           *)
(***************************************************************************)
RECURSIVE BinaryDigits(_)
BinaryDigits(n) ==
    LET d == IF n % 2 = 0 THEN "0" ELSE "1"
    IN  IF n < 2 THEN <<d>> ELSE Append(BinaryDigits(n \div 2), d)

format_binary(n, width) ==
    LET digits == BinaryDigits(n)
    IN  IF Len(digits) >= width THEN digits
        ELSE [i \in 1..(width - Len(digits)) |-> "0"] \o digits

(***************************************************************************)
(* str::find: the byte index of the first occurrence of needle in          *)
(* haystack, or None.                                                      *)
(***************************************************************************)
NONE == -1

find(haystack, needle) ==
    LET hits == {i \in 0..(Len(haystack) - Len(needle)) :
                    SubSeq(haystack, i + 1, i + Len(needle)) = needle}
    IN  IF hits = {} THEN NONE ELSE MinOf(hits)

\* &substring[from..]
SliceFrom(str, from) == SubSeq(str, from + 1, Len(str))

next_index_assigned(idx, start, m) == start + m

\* index += start + template_len
next_index(idx, start, m) == idx + (start + m)

(***************************************************************************)
(* overlapping_template::perform_test                                      *)
(***************************************************************************)
OTValidate ==
    /\ pc = "ot_start"
    /\ \E r \in {evaluate_bit_string(bit_string, RECOMMENDED_SIZE_OVERLAPPING_TEMPLATE)} :
           IF r.ok
           THEN /\ pc' = "ot_params"
                /\ length' = r.length
                /\ warned' = r.warn
                /\ UNCHANGED <<result, error>>
           ELSE /\ Fail("Err", "invalid bit string")
                /\ UNCHANGED <<length, warned>>
    /\ UNCHANGED <<bit_string, fmVars, lrVars, otVars>>

OTParams ==
    /\ pc = "ot_params"
    /\ \E r \in {evaluate_test_params(length, template_len, number_of_blocks)} :
           IF r.kind = "Ok"
           THEN /\ block_size' = r.block_size
                /\ warned' = (warned \/ template_len < TEMPLATE_LEN_1 - 1)
                /\ pc' = "ot_mean"
                /\ UNCHANGED <<result, error>>
           ELSE /\ Fail(r.kind, r.why)
                /\ UNCHANGED <<block_size, warned>>
    /\ UNCHANGED <<bit_string, length, template_len, number_of_blocks, number_of_templates,
                   mean_numerator, num, template, block, substring, index, counter,
                   template_counters, p_values, fmVars, lrVars>>

\* number_of_templates = 2^m; mean = ((block_size - template_len + 1) as f64) / ...
\* The usize subtraction of a larger template_len panics where overflow checks are
\* compiled in and wraps where they are not.
OTMean ==
    /\ pc = "ot_mean"
    /\ \/ /\ block_size >= template_len
          /\ mean_numerator' = Usize(block_size - template_len + 1)
          /\ number_of_templates' = Pow2(template_len)
          /\ pc' = "ot_template"
          /\ UNCHANGED <<result, error>>
       \/ /\ block_size < template_len
          /\ mean_numerator' = UsizeWrapped(block_size - template_len + 1)
          /\ number_of_templates' = Pow2(template_len)
          /\ pc' = "ot_template"
          /\ UNCHANGED <<result, error>>
       \/ /\ block_size < template_len
          /\ Fail("Panic", "attempt to subtract with overflow")
          /\ number_of_templates' = Pow2(template_len)
          /\ UNCHANGED mean_numerator
    /\ UNCHANGED <<bit_string, length, warned, template_len, number_of_blocks, block_size,
                   num, template, block, substring, index, counter, template_counters,
                   p_values, fmVars, lrVars>>

\* one iteration of `for num in 0..number_of_templates` begins
OTTemplate ==
    /\ pc = "ot_template"
    /\ num < number_of_templates
    /\ template' = format_binary(num, template_len)
    /\ template_counters' = <<>>
    /\ block' = 0
    /\ pc' = "ot_block"
    /\ UNCHANGED <<bit_string, result, error, length, warned, template_len,
                   number_of_blocks, block_size, number_of_templates, mean_numerator, num,
                   substring, index, counter, p_values, fmVars, lrVars>>

\* one iteration of `for block in 0..number_of_blocks` begins
OTBlock ==
    /\ pc = "ot_block"
    /\ block < number_of_blocks
    /\ LET start_index == block * block_size
           end_index == (block + 1) * block_size
       IN  IF end_index > bit_string.len
           THEN /\ Fail("Panic", "byte index out of bounds")
                /\ UNCHANGED <<substring, counter, index>>
           ELSE /\ substring' = Slice(bit_string, start_index, end_index)
                /\ counter' = 0
                /\ index' = 0
                /\ pc' = "ot_search"
                /\ UNCHANGED <<result, error>>
    /\ UNCHANGED <<bit_string, length, warned, template_len, number_of_blocks, block_size,
                   number_of_templates, mean_numerator, num, template, block,
                   template_counters, p_values, fmVars, lrVars>>

\* while let Some(start) = substring[index..].find(&template) { counter += 1; index += ... }
OTSearchHit ==
    /\ pc = "ot_search"
    /\ index <= Len(substring)
    /\ \E start \in {find(SliceFrom(substring, index), template)} :
           /\ start # NONE
           /\ counter' = counter + 1
           /\ index' = next_index(index, start, template_len)
    /\ UNCHANGED <<commonVars, template_len, number_of_blocks, block_size,
                   number_of_templates, mean_numerator, num, template, block, substring,
                   template_counters, p_values, fmVars, lrVars>>

\* find returns None: template_counters.push(counter).  Slicing substring[index..]
\* with index beyond the end of the block panics instead.
OTSearchEnd ==
    /\ pc = "ot_search"
    /\ IF index > Len(substring)
       THEN /\ Fail("Panic", "byte index out of bounds")
            /\ UNCHANGED <<template_counters, block>>
       ELSE /\ find(SliceFrom(substring, index), template) = NONE
            /\ template_counters' = Append(template_counters, counter)
            /\ block' = block + 1
            /\ pc' = "ot_block"
            /\ UNCHANGED <<result, error>>
    /\ UNCHANGED <<bit_string, length, warned, template_len, number_of_blocks, block_size,
                   number_of_templates, mean_numerator, num, template, substring, index,
                   counter, p_values, fmVars, lrVars>>

\* the blocks are done: chi-square over template_counters, p_values.push(p_value)
OTTemplateEnd ==
    /\ pc = "ot_block"
    /\ block >= number_of_blocks
    /\ p_values' = Append(p_values, template_counters)
    /\ num' = num + 1
    /\ pc' = "ot_template"
    /\ UNCHANGED <<bit_string, result, error, length, warned, template_len,
                   number_of_blocks, block_size, number_of_templates, mean_numerator,
                   template, block, substring, index, counter, template_counters,
                   fmVars, lrVars>>

\* the templates are done: Ok(mean of p_values)
OTResult ==
    /\ pc = "ot_template"
    /\ num >= number_of_templates
    /\ pc' = "done"
    /\ result' = "Ok"
    /\ UNCHANGED <<bit_string, error, length, warned, fmVars, lrVars, otVars>>

\* short strings with every small parameter and the parameters around each limit;
\* one short string with the two largest template lengths; longer strings, whose
\* length / 100 is not 0, with block counts around the block size check
OTCalls ==
    {<<Explicit(s), m, n>> :
        s \in SeqsUpTo(Bits, MaxBits) \cup {<<"1", "2">>},
        m \in 0..MaxTemplateLen \cup {TEMPLATE_LEN_1 + 1},
        n \in 0..MaxBlocks \cup {RECOMMENDED_SIZE, RECOMMENDED_SIZE + 1}}
    \cup {<<Explicit(<<"1", "1", "1">>), m, 1>> : m \in {TEMPLATE_LEN_1 - 1, TEMPLATE_LEN_1}}
    \cup {<<Tiled(<<"1">>, L, <<>>, L), TEMPLATE_LEN_0, n>> :
            L \in {2 * BLOCK_SIZE_DIVISOR + k : k \in 0..MaxExtra},
            n \in {RECOMMENDED_SIZE \div 2, RECOMMENDED_SIZE - 1, RECOMMENDED_SIZE}}

InitOT ==
    /\ \E call \in OTCalls :
           /\ bit_string = call[1]
           /\ template_len = call[2]
           /\ number_of_blocks = call[3]
    /\ CallStart("ot_start")
    /\ block_size = -1
    /\ number_of_templates = -1
    /\ mean_numerator = Usize(0)
    /\ num = 0
    /\ template = <<>>
    /\ block = 0
    /\ substring = <<>>
    /\ index = 0
    /\ counter = 0
    /\ template_counters = <<>>
    /\ p_values = <<>>
    /\ FMIdle /\ LRIdle

NextOT ==
    \/ OTValidate \/ OTParams \/ OTMean \/ OTTemplate \/ OTBlock
    \/ OTSearchHit \/ OTSearchEnd \/ OTTemplateEnd \/ OTResult

SpecOT == InitOT /\ [][NextOT]_vars

(***************************************************************************)
(* Properties.                                                             *)
(***************************************************************************)
RECURSIVE SumOver(_, _)
SumOver(m, keys) ==
    IF keys = {} THEN 0
    ELSE LET k == CHOOSE x \in keys : TRUE IN m[k] + SumOver(m, keys \ {k})

\* the number of start positions at which t occurs in s
OccurrenceCount(s, t) ==
    Cardinality({i \in 0..(Len(s) - Len(t)) : SubSeq(s, i + 1, i + Len(t)) = t})

NonBinary(bs) == bs.len = 0 \/ \E i \in 0..(bs.len - 1) : CharAt(bs, i) \notin {"0", "1"}

\* C1: in overlapping_template::perform_test the counter pushed for a block and a
\* template equals the number of start positions at which the template occurs in
\* the block, occurrences that share bits included ("11" in "111": 2).
C1_CounterCountsOverlappingOccurrences ==
    \A k \in 1..Len(template_counters) :
        template_counters[k] =
            OccurrenceCount(Slice(bit_string, (k - 1) * block_size, k * block_size), template)

\* C2: in longest_run::perform_test, once calculate_vi_values has returned, the
\* merged counts sum to config.number_of_blocks, in every length bucket.
C2_MergedCountsSumToN ==
    (pc = "lr_chi_square" \/ (pc = "done" /\ result = "Ok"))
        => /\ length >= 128
           /\ SumOver(vi_counts, DOMAIN vi_counts) = config.number_of_blocks
           /\ SumOver(counts, DOMAIN counts) = config.number_of_blocks

\* a finished run whose blocks gave two categories at or above the upper threshold
\* and one below the lower threshold
C2_Witness ==
    /\ pc = "done"
    /\ result = "Ok"
    /\ \E a, b \in DOMAIN counts : a < b /\ a >= config.thresholds[2]
    /\ \E a \in DOMAIN counts : a < config.thresholds[1]

\* C3: the selected configuration has N = floor(L / M), so M * N <= L and fewer than
\* M trailing bits are discarded, for every L of every bucket.
C3_BlockCountIsFloorOfLengthOverM ==
    config.ok
        => /\ config.number_of_blocks = length \div config.block_size
           /\ config.block_size * config.number_of_blocks <= length
           /\ length - config.block_size * config.number_of_blocks < config.block_size

\* C4: for a well-formed bit string, every length below 128 ends in an error with no
\* block tallied; from 128 on a configuration is selected: the minimum bucket's
\* below 6272, the mid bucket's below 750000, the max bucket's from there on.
C4_LengthFloorAndBuckets ==
    /\ (length # -1 /\ length < 128)
        => /\ pc \in {"lr_config", "done"}
           /\ pc = "done" => result = "Err"
           /\ ~config.ok
           /\ counts = EmptyMap /\ block_num = 0 /\ vi_counts = EmptyMap
    /\ (length >= 128 /\ pc # "lr_config")
        => /\ config.ok
           /\ result # "Err"
           /\ (length < 6272)
                => config = LongestRunConfig(MIN_SIZE_M, MIN_SIZE_N, MIN_THRESHOLDS, MIN_PI_VALUES)
           /\ (length >= 6272 /\ length < 750000)
                => config = LongestRunConfig(MID_SIZE_M, MID_SIZE_N, MID_THRESHOLDS, MID_PI_VALUES)
           /\ (length >= 750000)
                => config = LongestRunConfig(MAX_SIZE_M, MAX_SIZE_N, MAX_THRESHOLDS, MAX_PI_VALUES)
    /\ config.ok => length >= 128

\* a well-formed string of 127 bits was rejected
C4_Witness == pc = "done" /\ result = "Err" /\ length = 127

\* C5: with a well-formed bit string, a template length outside
\* [TEMPLATE_LEN.0, TEMPLATE_LEN.1], a block count above RECOMMENDED_SIZE, or a block
\* size length / N <= length / 100 ends the call in an error before any template is
\* enumerated, any occurrence counted or any p-value produced.
C5_BadParametersRejectedUpfront ==
    LET bad == \/ template_len < TEMPLATE_LEN_0
               \/ template_len > TEMPLATE_LEN_1
               \/ number_of_blocks > RECOMMENDED_SIZE
               \/ /\ number_of_blocks > 0
                  /\ length \div number_of_blocks <= length \div 100
    IN  (length # -1 /\ bad)
            => /\ pc \in {"ot_params", "done"}
               /\ pc = "done" => result = "Err"
               /\ block_size = -1
               /\ number_of_templates = -1
               /\ num = 0 /\ template = <<>> /\ block = 0
               /\ counter = 0 /\ template_counters = <<>> /\ p_values = <<>>

\* a string of 200 bits or more was rejected for its block size alone
C5_Witness ==
    /\ pc = "done"
    /\ result = "Err"
    /\ length >= 200
    /\ template_len \in TEMPLATE_LEN_0..TEMPLATE_LEN_1
    /\ number_of_blocks \in 1..RECOMMENDED_SIZE
    /\ length \div number_of_blocks = length \div 100

\* C6: frequency_monobit::perform_test ends in an error, with nothing counted,
\* exactly when the bit string is empty or holds a symbol other than '0'/'1'; every
\* other string, shorter than 100 bits or not, ends in Ok (shorter ones with a
\* warning).
C6_MonobitValidation ==
    /\ NonBinary(bit_string)
        => /\ pc \in {"fm_start", "done"}
           /\ result # "Ok"
           /\ count_zero = -1 /\ count_one = -1 /\ partial_sum = -1
    /\ pc = "done"
        => /\ result = "Err" <=> NonBinary(bit_string)
           /\ result = "Ok" <=> ~NonBinary(bit_string)
           /\ result = "Ok"
                => /\ count_zero + count_one = bit_string.len
                   /\ count_zero >= 0 /\ count_one >= 0
                   /\ warned <=> bit_string.len < 100

\* a string whose first symbol is a bit and that holds another symbol was rejected
C6_Witness ==
    /\ pc = "done"
    /\ result = "Err"
    /\ bit_string.len >= 2
    /\ CharAt(bit_string, 0) \in Bits

\* C7: calculate_vi_values returns a map whose keys are exactly min..max; the entry
\* at min sums the counts of the categories <= min, the entry at max those >= max,
\* a category strictly between keeps its count, an unobserved one has count 0.
C7_MergedKeysAreDenseAndFolded ==
    pc = "vi_return"
        => LET min == config.thresholds[1]
               max == config.thresholds[2]
           IN  /\ DOMAIN vi_counts = min..max
               /\ vi_counts[min] = SumOver(counts, {k \in DOMAIN counts : k <= min})
               /\ vi_counts[max] = SumOver(counts, {k \in DOMAIN counts : k >= max})
               /\ \A k \in (min + 1)..(max - 1) :
                      vi_counts[k] = IF k \in DOMAIN counts THEN counts[k] ELSE 0
               /\ Len(ValuesAscending(vi_counts, DOMAIN vi_counts)) = max - min + 1

\* two categories were folded into min and a category between min and max was
\* not observed
C7_Witness ==
    /\ pc = "vi_return"
    /\ Cardinality({k \in DOMAIN counts : k <= config.thresholds[1]}) = 2
    /\ \E k \in (config.thresholds[1] + 1)..(config.thresholds[2] - 1) : k \notin DOMAIN counts

C9_BlockSizeAtLeastTemplateLen ==
    block_size # -1
        => /\ block_size >= template_len
           /\ block_size - template_len + 1 >= 1

\* C10: evaluate_test_params ends in Ok or Err for every block count, never in a
\* division by zero, and an accepted block count N has N >= 1 and M * N <= length.
C10_TypedOutcomeForEveryBlockCount ==
    /\ ~(result = "Panic" /\ error = "attempt to divide by zero")
    /\ block_size # -1
        => /\ number_of_blocks >= 1
           /\ block_size * number_of_blocks <= length

====
